---- MODULE Spec2Model ----
(***************************************************************************)
(* Model of the document ingestion, metric extraction, scoring and risk    *)
(* flagging code of src/tools.py, and of the HTTP endpoints of src/main.py *)
(* that receive an upload and run the analysis on it.                      *)
(*                                                                         *)
(* A Python str is a sequence of characters; a character is a one-element  *)
(* TLA+ string, except the non-ASCII characters, which are written by    *)
(* code point: "U+00E9" (a letter), "U+00D7" (the sign in the table shape) *)
(* and "U+00A0" (a no-break space: whitespace to \s and to str.strip).     *)
(*                                                                         *)
(* A call that returns v is the record [kind |-> "return", value |-> v]; a *)
(* call that an exception leaves is [kind |-> "raise", value |-> message]. *)
(***************************************************************************)
EXTENDS Integers, Sequences, FiniteSets, TLC

VARIABLES PDF_SUPPORT, EXCEL_SUPPORT, CHARDET_SUPPORT, pc, op, arg, ret,
          uploads, call, batch

vars == <<PDF_SUPPORT, EXCEL_SUPPORT, CHARDET_SUPPORT, pc, op, arg, ret,
          uploads, call, batch>>

flags == <<PDF_SUPPORT, EXCEL_SUPPORT, CHARDET_SUPPORT>>

\* The call of a tool in progress.
tool == <<pc, op, arg, ret>>

\* The files of UPLOAD_DIR, the call of analyze_document in progress and the
\* call of analyze_multiple_documents in progress.
server == <<uploads, call, batch>>

(***************************************************************************)
(* Bounds                                                                  *)
(***************************************************************************)
MaxTextLen == 4

MaxPages == 3

MaxLines == 2

MaxWords == 3

MaxAmount == 8

MaxFiles == 2

MaxTicks == 3

\* Seconds of one step of the clock.
TickSeconds == 150

(***************************************************************************)
(* Characters and strings                                                  *)
(***************************************************************************)
NonAscii == {"U+00E9", "U+00A0", "U+00D7"}

\* Python's Unicode whitespace, as far as the model's alphabet goes.
Whitespace == {" ", "\n", "\t", "\r", "U+00A0"}

IsAscii(c) == c \notin NonAscii

IsSpace(c) == c \in Whitespace

Return(v) == [kind |-> "return", value |-> v]

Raise(m) == [kind |-> "raise", value |-> m]

\* F(e) with e evaluated once, as an assignment to a local variable does.
With(e, F(_)) == CHOOSE r \in {F(x) : x \in {e}} : TRUE

\* All sequences over S of length at most n.
SeqUpTo(S, n) == UNION {[1..k -> S] : k \in 0..n}

\* s[i..] without its first n elements.
Drop(s, n) == SubSeq(s, n + 1, Len(s))

\* p occurs in s at position i (1-based).
MatchAt(s, p, i) == /\ i >= 1
                    /\ i + Len(p) - 1 <= Len(s)
                    /\ SubSeq(s, i, i + Len(p) - 1) = p

\* Python's `p in s`.
Contains(s, p) == \E i \in 1..(Len(s) + 1) : MatchAt(s, p, i)

\* Python's s.startswith(p).
StartsWith(s, p) == MatchAt(s, p, 1)

(***************************************************************************)
(* FinancialDocumentTool._clean_text                                       *)
(***************************************************************************)
\* Greatest j in i+1..Len(s) with s[j] = "\n" and s[i+1..j-1] all whitespace,
\* or 0: where the greedy \s*\n of the pattern \n\s*\n ends after a "\n" at i.
RECURSIVE LastNewline(_, _, _)
LastNewline(s, k, best) ==
    IF k > Len(s) \/ ~IsSpace(s[k]) THEN best
    ELSE LastNewline(s, k + 1, IF s[k] = "\n" THEN k ELSE best)

\* re.sub(r'\n\s*\n', '\n\n', text), scanning from position i.
RECURSIVE SubBlankLines(_, _)
SubBlankLines(s, i) ==
    IF i > Len(s) THEN <<>>
    ELSE IF s[i] = "\n" /\ LastNewline(s, i + 1, 0) # 0
         THEN <<"\n", "\n">> \o SubBlankLines(s, LastNewline(s, i + 1, 0) + 1)
         ELSE <<s[i]>> \o SubBlankLines(s, i + 1)

\* End of the maximal run of characters satisfying `in` that starts at i.
RECURSIVE RunEnd(_, _, _)
RunEnd(s, i, in) ==
    IF i + 1 <= Len(s) /\ s[i + 1] \in in THEN RunEnd(s, i + 1, in) ELSE i

\* re.sub(r' +', ' ', text), scanning from position i.
RECURSIVE SubSpaces(_, _)
SubSpaces(s, i) ==
    IF i > Len(s) THEN <<>>
    ELSE IF s[i] = " "
         THEN <<" ">> \o SubSpaces(s, RunEnd(s, i, {" "}) + 1)
         ELSE <<s[i]>> \o SubSpaces(s, i + 1)

\* re.sub(r'[^\x00-\x7F]+', ' ', text), scanning from position i.
RECURSIVE SubNonAscii(_, _)
SubNonAscii(s, i) ==
    IF i > Len(s) THEN <<>>
    ELSE IF ~IsAscii(s[i])
         THEN <<" ">> \o SubNonAscii(s, RunEnd(s, i, NonAscii) + 1)
         ELSE <<s[i]>> \o SubNonAscii(s, i + 1)

\* str.strip(): drop leading and trailing whitespace.
RECURSIVE Strip(_)
Strip(s) ==
    IF s = <<>> THEN s
    ELSE IF IsSpace(s[1]) THEN Strip(Tail(s))
    ELSE IF IsSpace(s[Len(s)]) THEN Strip(SubSeq(s, 1, Len(s) - 1))
    ELSE s

CleanText(text) ==
    IF text = <<>> THEN <<>>
    ELSE Strip(SubNonAscii(SubSpaces(SubBlankLines(text, 1), 1), 1))

(***************************************************************************)
(* String literals of FinancialDocumentTool                                *)
(***************************************************************************)
MsgNotFound ==
    <<"E", "R", "R", "O", "R", ":", " ", "F", "i", "l", "e", " ", "n", "o",
      "t", " ", "f", "o", "u", "n", "d", ":", " ">>

MsgUnsupported ==
    <<"E", "R", "R", "O", "R", ":", " ", "U", "n", "s", "u", "p", "p", "o",
      "r", "t", "e", "d", " ", "f", "i", "l", "e", " ", "t", "y", "p", "e",
      ":", " ">>

MsgErrorReading ==
    <<"E", "R", "R", "O", "R", ":", " ", "E", "r", "r", "o", "r", " ", "r",
      "e", "a", "d", "i", "n", "g", " ", "d", "o", "c", "u", "m", "e", "n",
      "t", " ">>

MsgNoPdfSupport ==
    <<"P", "D", "F", " ", "s", "u", "p", "p", "o", "r", "t", " ", "n", "o",
      "t", " ", "a", "v", "a", "i", "l", "a", "b", "l", "e", ".", " ", "I",
      "n", "s", "t", "a", "l", "l", " ", "p", "y", "p", "d", "f", " ", "p",
      "a", "c", "k", "a", "g", "e", ".">>

MsgPdfFailed ==
    <<"P", "D", "F", " ", "p", "r", "o", "c", "e", "s", "s", "i", "n", "g",
      " ", "f", "a", "i", "l", "e", "d", ":", " ">>

MsgTextFailed ==
    <<"T", "e", "x", "t", " ", "f", "i", "l", "e", " ", "p", "r", "o", "c",
      "e", "s", "s", "i", "n", "g", " ", "f", "a", "i", "l", "e", "d", ":",
      " ">>

MsgNoExcelSupport ==
    <<"E", "x", "c", "e", "l", "/", "C", "S", "V", " ", "s", "u", "p", "p",
      "o", "r", "t", " ", "n", "o", "t", " ", "a", "v", "a", "i", "l", "a",
      "b", "l", "e", ".", " ", "I", "n", "s", "t", "a", "l", "l", " ", "p",
      "a", "n", "d", "a", "s", " ", "p", "a", "c", "k", "a", "g", "e", ".">>

MsgSheetFailed ==
    <<"S", "p", "r", "e", "a", "d", "s", "h", "e", "e", "t", " ", "p", "r",
      "o", "c", "e", "s", "s", "i", "n", "g", " ", "f", "a", "i", "l", "e",
      "d", ":", " ">>

PageOpen ==
    <<"-", "-", "-", " ", "P", "a", "g", "e", " ">>

PageClose ==
    <<" ", "-", "-", "-">>

PageErrorOpen ==
    <<" ", "[", "E", "r", "r", "o", "r", " ", "e", "x", "t", "r", "a", "c",
      "t", "i", "n", "g", ":", " ">>

PageErrorClose ==
    <<"]", " ", "-", "-", "-">>

SheetOpen ==
    <<"-", "-", "-", " ", "S", "p", "r", "e", "a", "d", "s", "h", "e", "e",
      "t", " ", "D", "a", "t", "a", ":", " ">>

ShapeOpen ==
    <<"S", "h", "a", "p", "e", ":", " ">>

ShapeRows ==
    <<" ", "r", "o", "w", "s", " ", "U+00D7", " ">>

ShapeCols ==
    <<" ", "c", "o", "l", "u", "m", "n", "s">>

PreviewHeader ==
    <<"\n", "F", "i", "r", "s", "t", " ", "5", "0", " ", "r", "o", "w",
      "s", " ", "p", "r", "e", "v", "i", "e", "w", ":">>

ErrorPrefix ==
    <<"E", "R", "R", "O", "R", ":">>

NotFoundText ==
    <<"n", "o", "t", " ", "f", "o", "u", "n", "d">>

UnsupportedText ==
    <<"U", "n", "s", "u", "p", "p", "o", "r", "t", "e", "d", " ", "f", "i",
      "l", "e", " ", "t", "y", "p", "e">>

NoneStr ==
    <<"N", "o", "n", "e">>

(***************************************************************************)
(* Paths, files and helpers of the ingestion code                          *)
(***************************************************************************)
UpperLetters ==
    <<"A", "B", "C", "D", "E", "F", "G", "H", "I", "J", "K", "L", "M", "N",
      "O", "P", "Q", "R", "S", "T", "U", "V", "W", "X", "Y", "Z">>

LowerLetters ==
    <<"a", "b", "c", "d", "e", "f", "g", "h", "i", "j", "k", "l", "m", "n",
      "o", "p", "q", "r", "s", "t", "u", "v", "w", "x", "y", "z">>

LowerMap == [c \in {UpperLetters[i] : i \in 1..26} |->
                LowerLetters[CHOOSE i \in 1..26 : UpperLetters[i] = c]]

LowerChar(c) == IF c \in DOMAIN LowerMap THEN LowerMap[c] ELSE c

\* str.lower()
Lower(s) == [i \in 1..Len(s) |-> LowerChar(s[i])]

\* Greatest index of c in s, or 0: s.rfind(c) + 1.
RFind(s, c) ==
    IF \E i \in 1..Len(s) : s[i] = c
    THEN CHOOSE i \in 1..Len(s) : s[i] = c /\ \A j \in (i + 1)..Len(s) : s[j] # c
    ELSE 0

\* Path(p).name: the final component of the path.
Name(p) == Drop(p, RFind(p, "/"))

\* Path(p).suffix: from the last dot of the name, unless that dot starts or
\* ends the name.
Suffix(p) ==
    LET name == Name(p)
        i == RFind(name, ".")
    IN IF 1 < i /\ i < Len(name) THEN Drop(name, i - 1) ELSE <<>>

\* str(n) for a natural number n.
RECURSIVE Digits(_)
Digits(n) ==
    LET d == <<"0", "1", "2", "3", "4", "5", "6", "7", "8", "9">>[(n % 10) + 1]
    IN IF n < 10 THEN <<d>> ELSE Digits(n \div 10) \o <<d>>

\* sep.join(parts)
RECURSIVE Join(_, _)
Join(sep, parts) ==
    IF parts = <<>> THEN <<>>
    ELSE IF Len(parts) = 1 THEN parts[1]
    ELSE parts[1] \o sep \o Join(sep, Tail(parts))

\* f"{file_path}"
Format(path) == IF path.isStr THEN path.chars ELSE NoneStr

\* str(e) of the exception a reader meets on a file it cannot open or parse,
\* and of the TypeError os.path.exists raises on an argument that is no path.
ErrMsg == <<"b", "a", "d">>

TypeErrMsg == <<"n", "o", "t", " ", "s", "t", "r">>

(***************************************************************************)
(* FinancialDocumentTool._read_pdf                                         *)
(***************************************************************************)
\* The page loop with the try statement around the loop: the first page that
\* throws gets its marker and ends the loop.
RECURSIVE PdfEntriesStopAtError(_, _)
PdfEntriesStopAtError(pages, n) ==
    IF n > Len(pages) THEN <<>>
    ELSE LET page == pages[n]
         IN IF page.raises
            THEN <<PageOpen \o Digits(n) \o PageErrorOpen \o ErrMsg
                     \o PageErrorClose>>
            ELSE IF page.text # <<>>
                 THEN <<PageOpen \o Digits(n) \o PageClose \o <<"\n">>
                          \o CleanText(page.text)>>
                          \o PdfEntriesStopAtError(pages, n + 1)
                 ELSE PdfEntriesStopAtError(pages, n + 1)

\* The page loop without the test `if text:`: a page without text gets an
\* entry too.
RECURSIVE PdfEntriesNoTextTest(_, _)
PdfEntriesNoTextTest(pages, n) ==
    IF n > Len(pages) THEN <<>>
    ELSE LET page == pages[n]
         IN IF page.raises
            THEN <<PageOpen \o Digits(n) \o PageErrorOpen \o ErrMsg
                     \o PageErrorClose>> \o PdfEntriesNoTextTest(pages, n + 1)
            ELSE <<PageOpen \o Digits(n) \o PageClose \o <<"\n">>
                     \o CleanText(page.text)>> \o PdfEntriesNoTextTest(pages, n + 1)

\* The loop over enumerate(reader.pages, 1) from page n on: full_text.
RECURSIVE PdfEntries(_, _)
PdfEntries(pages, n) ==
    IF n > Len(pages) THEN <<>>
    ELSE LET page == pages[n]
             rest == PdfEntries(pages, n + 1)
         IN IF page.raises
            THEN <<PageOpen \o Digits(n) \o PageErrorOpen \o ErrMsg
                     \o PageErrorClose>> \o rest
            ELSE IF page.text # <<>>
                 THEN <<PageOpen \o Digits(n) \o PageClose \o <<"\n">>
                          \o CleanText(page.text)>> \o rest
                 ELSE rest

\* The body of the try block: PdfReader(file_path) raises on a file that is
\* not a PDF document.
ReadPdfBody(path, file) ==
    IF file.type # "pdf" THEN Raise(ErrMsg)
    ELSE Return(Join(<<"\n", "\n">>, PdfEntries(file.pages, 1)))

ReadPdf(path, file) ==
    IF ~PDF_SUPPORT THEN Return(MsgNoPdfSupport)
    ELSE LET r == ReadPdfBody(path, file)
         IN IF r.kind = "raise" THEN Return(MsgPdfFailed \o r.value) ELSE r

(***************************************************************************)
(* FinancialDocumentTool._read_text                                        *)
(***************************************************************************)
\* The body of the try block: open() raises on an unreadable file; the
\* content is decoded with the detected encoding when chardet is present
\* and as UTF-8 otherwise, undecodable bytes being dropped.
ReadTextBody(path, file) ==
    IF file.type \in {"unreadable", "missing"} THEN Raise(ErrMsg)
    ELSE Return(CleanText(IF CHARDET_SUPPORT THEN file.detected ELSE file.utf8))

ReadText(path, file) ==
    LET r == ReadTextBody(path, file)
    IN IF r.kind = "raise" THEN Return(MsgTextFailed \o r.value) ELSE r

(***************************************************************************)
(* FinancialDocumentTool._read_spreadsheet                                 *)
(***************************************************************************)
Min(a, b) == IF a < b THEN a ELSE b

Max(a, b) == IF a > b THEN a ELSE b

PreviewRows == 50

\* One rendered line per row of the frame, n rows: a newline, the row's
\* label and its cells.
RowLines(n, cols) ==
    LET width == 2 * cols + 2
    IN [k \in 1..(n * width) |->
           IF k % width = 1 THEN "\n"
           ELSE IF k % width = 2 THEN "r"
           ELSE IF k % 2 = 1 THEN " " ELSE "v"]

\* df.head(50).to_string(): a header line, then the first 50 rows at most.
FrameToString(rows, cols) ==
    [j \in 1..(2 * cols) |-> IF j % 2 = 1 THEN " " ELSE "c"]
        \o RowLines(Min(rows, PreviewRows), cols)

\* The body of the try block: pd.read_csv / pd.read_excel raise on a file
\* that holds no table.
ReadSpreadsheetBody(path, file) ==
    IF file.type # "table" THEN Raise(ErrMsg)
    ELSE Return(Join(<<"\n">>,
                     << SheetOpen \o Name(path.chars) \o PageClose,
                        ShapeOpen \o Digits(file.rows) \o ShapeRows
                            \o Digits(file.cols) \o ShapeCols,
                        PreviewHeader,
                        FrameToString(file.rows, file.cols) >>))

ReadSpreadsheet(path, file) ==
    IF ~EXCEL_SUPPORT THEN Return(MsgNoExcelSupport)
    ELSE LET r == ReadSpreadsheetBody(path, file)
         IN IF r.kind = "raise" THEN Return(MsgSheetFailed \o r.value) ELSE r

(***************************************************************************)
(* FinancialDocumentTool.read_data                                         *)
(***************************************************************************)
Ext(s) ==
    CASE s = "pdf" -> <<".", "p", "d", "f">>
      [] s = "txt" -> <<".", "t", "x", "t">>
      [] s = "csv" -> <<".", "c", "s", "v">>
      [] s = "xlsx" -> <<".", "x", "l", "s", "x">>
      [] s = "xls" -> <<".", "x", "l", "s">>

SpreadsheetExts == {Ext("csv"), Ext("xlsx"), Ext("xls")}

\* Which reader read_data hands an existing file to, by its extension.
Reader(path) ==
    LET file_extension == Lower(Suffix(path.chars))
    IN IF file_extension = Ext("pdf") THEN "_read_pdf"
       ELSE IF file_extension = Ext("txt") THEN "_read_text"
       ELSE IF file_extension \in SpreadsheetExts THEN "_read_spreadsheet"
       ELSE "none"

\* ReadDataBody without the os.path.exists check.
ReadDataBodyNoExistsCheck(path, file) ==
    IF ~path.isStr THEN Raise(TypeErrMsg) @@ [reader |-> "none"]
    ELSE LET reader == Reader(path)
         IN CASE reader = "_read_pdf" -> ReadPdf(path, file) @@ [reader |-> reader]
              [] reader = "_read_text" -> ReadText(path, file) @@ [reader |-> reader]
              [] reader = "_read_spreadsheet" ->
                    ReadSpreadsheet(path, file) @@ [reader |-> reader]
              [] OTHER -> Return(MsgUnsupported \o Lower(Suffix(path.chars)))
                             @@ [reader |-> "none"]

\* ReadDataBody with the text reader as the default of the dispatch.
ReadDataBodyDefaultText(path, file) ==
    IF ~path.isStr THEN Raise(TypeErrMsg) @@ [reader |-> "none"]
    ELSE IF file.type = "missing"
    THEN Return(MsgNotFound \o Format(path)) @@ [reader |-> "none"]
    ELSE LET reader == Reader(path)
         IN CASE reader = "_read_pdf" -> ReadPdf(path, file) @@ [reader |-> reader]
              [] reader = "_read_spreadsheet" ->
                    ReadSpreadsheet(path, file) @@ [reader |-> reader]
              [] OTHER -> ReadText(path, file) @@ [reader |-> "_read_text"]

\* The body of the try block. The result also names the reader called.
ReadDataBody(path, file) ==
    IF ~path.isStr THEN Raise(TypeErrMsg) @@ [reader |-> "none"]
    ELSE IF file.type = "missing"
    THEN Return(MsgNotFound \o Format(path)) @@ [reader |-> "none"]
    ELSE LET reader == Reader(path)
         IN CASE reader = "_read_pdf" -> ReadPdf(path, file) @@ [reader |-> reader]
              [] reader = "_read_text" -> ReadText(path, file) @@ [reader |-> reader]
              [] reader = "_read_spreadsheet" ->
                    ReadSpreadsheet(path, file) @@ [reader |-> reader]
              [] OTHER -> Return(MsgUnsupported \o Lower(Suffix(path.chars)))
                             @@ [reader |-> "none"]

\* ReadData without its except clause.
ReadDataNoExcept(path, file) == ReadDataBody(path, file)

ReadData(path, file) ==
    LET r == ReadDataBody(path, file)
    IN IF r.kind = "raise"
       THEN Return(MsgErrorReading \o Format(path) \o <<":", " ">> \o r.value)
                @@ [reader |-> r.reader]
       ELSE r

(***************************************************************************)
(* Numbers. A float is the exact rational [num |-> n, den |-> d], d > 0; a *)
(* percentage rounded to two places is the integer number of hundredths    *)
(* (15.0 is 1500).                                                         *)
(***************************************************************************)
Rat(n, d) == [num |-> n, den |-> d]

Abs(n) == IF n < 0 THEN -n ELSE n

RECURSIVE GCD(_, _)
GCD(a, b) == IF b = 0 THEN a ELSE GCD(b, a % b)

\* p / q for q > 0, rounded to the nearest integer, a tie going to the even
\* one, as Python's round() does.
RoundHalfEven(p, q) ==
    LET f == p \div q
        r == p % q
    IN IF 2 * r < q THEN f
       ELSE IF 2 * r > q THEN f + 1
       ELSE IF f % 2 = 0 THEN f ELSE f + 1

\* round(a / b * scale) for b # 0, without leaving the integers TLC has.
RoundScaled(a, b, scale) ==
    LET s == IF b < 0 THEN -1 ELSE 1
        g == GCD(Abs(a), Abs(b))
        p == (s * a) \div g
        q == (s * b) \div g
    IN (p \div q) * scale + RoundHalfEven((p % q) * scale, q)

Digit == {"0", "1", "2", "3", "4", "5", "6", "7", "8", "9"}

DigitValue(c) == CHOOSE v \in 0..9 : Digits(v) = <<c>>

\* int(s[:n]) for a string of digits; 0 for the empty string.
RECURSIVE ParseInt(_, _)
ParseInt(s, n) ==
    IF n = 0 THEN 0 ELSE 10 * ParseInt(s, n - 1) + DigitValue(s[n])

\* 10 ** n
RECURSIVE Pow10(_)
Pow10(n) == IF n = 0 THEN 1 ELSE 10 * Pow10(n - 1)

\* s.replace(c, '')
RECURSIVE Remove(_, _)
Remove(s, c) ==
    IF s = <<>> THEN <<>>
    ELSE IF s[1] = c THEN Remove(Tail(s), c)
    ELSE <<s[1]>> \o Remove(Tail(s), c)

ValueErrorMsg ==
    <<"c", "o", "u", "l", "d", " ", "n", "o", "t", " ", "c", "o", "n", "v",
      "e", "r", "t", " ", "s", "t", "r", "i", "n", "g", " ", "t", "o", " ",
      "f", "l", "o", "a", "t">>

\* float(s) for s made of digits and at most one dot: ValueError unless s
\* holds a digit.
ParseFloat(s) ==
    LET Parse(digits, places) ==
            IF digits = <<>> THEN Raise(ValueErrorMsg)
            ELSE Return(Rat(ParseInt(digits, Len(digits)), Pow10(places)))
        Split(str) ==
            Parse(Remove(str, "."),
                  IF RFind(str, ".") = 0 THEN 0 ELSE Len(str) - RFind(str, "."))
    IN With(s, Split)

(***************************************************************************)
(* InvestmentTool._extract_financial_metrics                               *)
(***************************************************************************)
\* A pattern is the sequence of words of its label; the words are joined by
\* \s+ and followed by  [:\s]*\$?([\d,]+\.?\d*)  in every pattern. What the
\* revenue patterns add after the group, \s*(million|billion|thousand)?,
\* matches the empty string and so never changes the match or group 1.
revenue_patterns ==
    << <<<<"r", "e", "v", "e", "n", "u", "e">>>>,
       <<<<"s", "a", "l", "e", "s">>>> >>

profit_patterns ==
    << <<<<"n", "e", "t">>, <<"i", "n", "c", "o", "m", "e">>>>,
       <<<<"n", "e", "t">>, <<"p", "r", "o", "f", "i", "t">>>> >>

NoMatch == [matched |-> FALSE, group |-> <<>>]

\* First index from i on whose character is not in `in`.
RECURSIVE SkipWhile(_, _, _)
SkipWhile(s, i, in) ==
    IF i <= Len(s) /\ s[i] \in in THEN SkipWhile(s, i + 1, in) ELSE i

\* The lower-case word w matches s at i under re.IGNORECASE.
MatchAtIgnoreCase(s, w, i) ==
    /\ i + Len(w) - 1 <= Len(s)
    /\ \A k \in 1..Len(w) : LowerChar(s[i + k - 1]) = w[k]

\* The label `words` matched at i, ignoring case: the index after it, or 0.
RECURSIVE LabelEnd(_, _, _)
LabelEnd(s, words, i) ==
    IF ~MatchAtIgnoreCase(s, words[1], i) THEN 0
    ELSE IF Len(words) = 1 THEN i + Len(words[1])
    ELSE LET j == i + Len(words[1])
             k == SkipWhile(s, j, Whitespace)
         IN IF k = j THEN 0 ELSE LabelEnd(s, Tail(words), k)

\* The pattern matched at i: group 1, taken greedily.
MatchPatternAt(s, words, i) ==
    LET j == LabelEnd(s, words, i)
        k == SkipWhile(s, j, {":"} \cup Whitespace)
        m == IF k <= Len(s) /\ s[k] = "$" THEN k + 1 ELSE k
        e1 == SkipWhile(s, m, Digit \cup {","})
        e2 == IF e1 <= Len(s) /\ s[e1] = "." THEN e1 + 1 ELSE e1
        e3 == SkipWhile(s, e2, Digit)
    IN IF j = 0 \/ e1 = m THEN NoMatch
       ELSE [matched |-> TRUE, group |-> SubSeq(s, m, e3 - 1)]

\* re.search(pattern, text, re.IGNORECASE): the leftmost match from i on.
Search(s, words, i) ==
    LET Leftmost(starts) ==
            IF starts = {} THEN NoMatch
            ELSE MatchPatternAt(s, words,
                                CHOOSE k \in starts : \A j \in starts : k <= j)
    IN With({k \in i..Len(s) : MatchPatternAt(s, words, k).matched}, Leftmost)

\* The for loop without its break statements: every pattern is tried and the
\* last one that matches decides the value.
RECURSIVE FirstPatternNoBreak(_, _, _)
FirstPatternNoBreak(text, patterns, n) ==
    IF n > Len(patterns) THEN Return(NoMatch)
    ELSE LET Later(value) ==
                 LET rest == FirstPatternNoBreak(text, patterns, n + 1)
                 IN IF value.kind = "raise" THEN value
                    ELSE IF rest.kind = "raise" \/ rest.value # NoMatch THEN rest
                    ELSE value
             Value(match) ==
                 IF match.matched
                 THEN With(ParseFloat(Remove(match.group, ",")), Later)
                 ELSE FirstPatternNoBreak(text, patterns, n + 1)
         IN With(Search(text, patterns[n], 1), Value)

\* The for loop over the patterns from pattern n on: the value of the first
\* pattern that matches, NoMatch when none does, ValueError when float() fails.
RECURSIVE FirstPattern(_, _, _)
FirstPattern(text, patterns, n) ==
    IF n > Len(patterns) THEN Return(NoMatch)
    ELSE LET Value(match) ==
                 IF match.matched THEN ParseFloat(Remove(match.group, ","))
                 ELSE FirstPattern(text, patterns, n + 1)
         IN With(Search(text, patterns[n], 1), Value)

EmptyDict == [k \in {} |-> 0]

TypeErrorMsg ==
    <<"e", "x", "p", "e", "c", "t", "e", "d", " ", "s", "t", "r", "i", "n", "g">>

\* metrics: a dict, the function from its keys to its values.
ExtractFinancialMetrics(data) ==
    LET Profit(revenue, net_income) ==
            IF net_income.kind = "raise" THEN net_income
            ELSE Return((IF revenue.value = NoMatch THEN EmptyDict
                         ELSE "revenue" :> revenue.value)
                        @@ (IF net_income.value = NoMatch THEN EmptyDict
                            ELSE "net_income" :> net_income.value))
        Revenue(revenue) ==
            LET Rest(net_income) == Profit(revenue, net_income)
            IN IF revenue.kind = "raise" THEN revenue
               ELSE With(FirstPattern(data.chars, profit_patterns, 1), Rest)
    IN IF ~data.isStr THEN Raise(TypeErrorMsg)
       ELSE With(FirstPattern(data.chars, revenue_patterns, 1), Revenue)

(***************************************************************************)
(* InvestmentTool._calculate_investment_ratios                             *)
(***************************************************************************)
ZeroDivisionMsg ==
    <<"d", "i", "v", "i", "s", "i", "o", "n", " ", "b", "y", " ", "z", "e", "r", "o">>

\* round((net_income / revenue) * 100, 2), in hundredths.
ProfitMargin(net_income, revenue) ==
    IF revenue.num = 0 THEN Raise(ZeroDivisionMsg)
    ELSE Return(RoundScaled(net_income.num * revenue.den,
                            net_income.den * revenue.num, 10000))

\* _calculate_investment_ratios without the test that revenue is not zero.
CalculateInvestmentRatiosNoZeroTest(metrics) ==
    IF "revenue" \in DOMAIN metrics /\ "net_income" \in DOMAIN metrics
    THEN LET pm == ProfitMargin(metrics["net_income"], metrics["revenue"])
         IN IF pm.kind = "raise" THEN pm ELSE Return("profit_margin" :> pm.value)
    ELSE Return(EmptyDict)

CalculateInvestmentRatios(metrics) ==
    IF /\ "revenue" \in DOMAIN metrics
       /\ "net_income" \in DOMAIN metrics
       /\ metrics["revenue"].num # 0
    THEN LET pm == ProfitMargin(metrics["net_income"], metrics["revenue"])
         IN IF pm.kind = "raise" THEN pm ELSE Return("profit_margin" :> pm.value)
    ELSE Return(EmptyDict)

(***************************************************************************)
(* InvestmentTool._calculate_investment_score                              *)
(***************************************************************************)
\* ratios.get('profit_margin', 0)
GetProfitMargin(ratios) ==
    IF "profit_margin" \in DOMAIN ratios THEN ratios["profit_margin"] ELSE 0

\* _calculate_investment_score with >= for > in the first test.
CalculateInvestmentScoreInclusive(metrics, ratios) ==
    LET score == 50 + (IF GetProfitMargin(ratios) >= 1500 THEN 15
                       ELSE IF GetProfitMargin(ratios) > 1000 THEN 10
                       ELSE IF GetProfitMargin(ratios) > 500 THEN 5
                       ELSE 0)
    IN Max(0, Min(100, score))

\* _calculate_investment_score with every increment doubled.
CalculateInvestmentScoreDoubled(metrics, ratios) ==
    LET score == 50 + (IF GetProfitMargin(ratios) > 1500 THEN 30
                       ELSE IF GetProfitMargin(ratios) > 1000 THEN 20
                       ELSE IF GetProfitMargin(ratios) > 500 THEN 10
                       ELSE 0)
    IN Max(0, Min(100, score))

CalculateInvestmentScore(metrics, ratios) ==
    LET score == 50 + (IF GetProfitMargin(ratios) > 1500 THEN 15
                       ELSE IF GetProfitMargin(ratios) > 1000 THEN 10
                       ELSE IF GetProfitMargin(ratios) > 500 THEN 5
                       ELSE 0)
    IN Max(0, Min(100, score))

(***************************************************************************)
(* InvestmentTool._generate_recommendations                                *)
(***************************************************************************)
\* _generate_recommendations with > for >= in the tests.
GenerateRecommendationsStrict(metrics, ratios, score) ==
    IF score > 80
    THEN <<"STRONG BUY: Company shows excellent financial metrics">>
    ELSE IF score > 60
    THEN <<"BUY: Company shows good financial health">>
    ELSE IF score > 40
    THEN <<"HOLD: Company shows average financial metrics">>
    ELSE <<"SELL/AVOID: Company shows concerning financial metrics">>

GenerateRecommendations(metrics, ratios, score) ==
    IF score >= 80
    THEN <<"STRONG BUY: Company shows excellent financial metrics">>
    ELSE IF score >= 60
    THEN <<"BUY: Company shows good financial health">>
    ELSE IF score >= 40
    THEN <<"HOLD: Company shows average financial metrics">>
    ELSE <<"SELL/AVOID: Company shows concerning financial metrics">>

(***************************************************************************)
(* InvestmentTool.analyze_investment                                       *)
(***************************************************************************)
\* The body of the try block.
AnalyzeInvestmentBody(financial_data) ==
    LET Scored(metrics, ratios) ==
            LET investment_score == CalculateInvestmentScore(metrics, ratios)
                recommendations ==
                    GenerateRecommendations(metrics, ratios, investment_score)
            IN Return([status |-> "success",
                       extracted_metrics |-> metrics,
                       calculated_ratios |-> ratios,
                       investment_score |-> investment_score,
                       recommendations |-> recommendations])
        Extracted(metrics) ==
            LET Calculated(ratios) ==
                    IF ratios.kind = "raise" THEN ratios
                    ELSE Scored(metrics.value, ratios.value)
            IN IF metrics.kind = "raise" THEN metrics
               ELSE With(CalculateInvestmentRatios(metrics.value), Calculated)
    IN With(ExtractFinancialMetrics(financial_data), Extracted)

\* analyze_investment without its except clause.
AnalyzeInvestmentNoExcept(financial_data) == AnalyzeInvestmentBody(financial_data)

AnalyzeInvestment(financial_data) ==
    LET Except(r) ==
            IF r.kind = "raise"
            THEN Return([status |-> "error", error |-> r.value,
                         message |-> "Investment analysis failed"])
            ELSE r
    IN With(AnalyzeInvestmentBody(financial_data), Except)

(***************************************************************************)
(* RiskTool.assess_risk                                                    *)
(***************************************************************************)
KwDebt == <<"d", "e", "b", "t">>

KwVolatile == <<"v", "o", "l", "a", "t", "i", "l", "e">>

KwUncertainty == <<"u", "n", "c", "e", "r", "t", "a", "i", "n", "t", "y">>

AttributeErrorMsg ==
    <<"n", "o", " ", "a", "t", "t", "r", "i", "b", "u", "t", "e", " ",
      "l", "o", "w", "e", "r">>

\* The dict assess_risk returns, given the score and which checks hit.
RiskAssessment(risk_score, debt, market) ==
    [ financial_risks |->
          IF debt THEN <<[risk |-> "Debt levels need review", severity |-> "medium"]>>
          ELSE <<>>,
      market_risks |->
          IF market THEN <<[risk |-> "Market volatility", severity |-> "medium"]>>
          ELSE <<>>,
      overall_risk_level |->
          IF risk_score >= 70 THEN "high"
          ELSE IF risk_score >= 40 THEN "medium"
          ELSE "low",
      risk_score |-> risk_score,
      risk_factors |->
          (IF debt THEN <<"High debt levels">> ELSE <<>>)
              \o (IF market THEN <<"Market volatility">> ELSE <<>>) ]

\* The body of the try block, adding 5 for each market keyword found.
AssessRiskBodyPerKeyword(financial_data) ==
    IF ~financial_data.isStr THEN Raise(AttributeErrorMsg)
    ELSE LET lower == Lower(financial_data.chars)
             debt == Contains(lower, KwDebt)
             market == Contains(lower, KwVolatile) \/ Contains(lower, KwUncertainty)
             risk_score == 50 + (IF debt THEN 10 ELSE 0)
                              + (IF Contains(lower, KwVolatile) THEN 5 ELSE 0)
                              + (IF Contains(lower, KwUncertainty) THEN 5 ELSE 0)
         IN Return(RiskAssessment(risk_score, debt, market))

\* The body of the try block, adding 20 for debt.
AssessRiskBodyDebtTwenty(financial_data) ==
    IF ~financial_data.isStr THEN Raise(AttributeErrorMsg)
    ELSE LET lower == Lower(financial_data.chars)
             debt == Contains(lower, KwDebt)
             market == Contains(lower, KwVolatile) \/ Contains(lower, KwUncertainty)
             risk_score == 50 + (IF debt THEN 20 ELSE 0) + (IF market THEN 5 ELSE 0)
         IN Return(RiskAssessment(risk_score, debt, market))

\* The body of the try block.
AssessRiskBody(financial_data) ==
    IF ~financial_data.isStr THEN Raise(AttributeErrorMsg)
    ELSE LET lower == Lower(financial_data.chars)
             debt == Contains(lower, KwDebt)
             market == Contains(lower, KwVolatile) \/ Contains(lower, KwUncertainty)
             risk_score == 50 + (IF debt THEN 10 ELSE 0) + (IF market THEN 5 ELSE 0)
         IN Return(RiskAssessment(risk_score, debt, market))

\* assess_risk without its except clause.
AssessRiskNoExcept(financial_data) == AssessRiskBody(financial_data)

AssessRisk(financial_data) ==
    LET r == AssessRiskBody(financial_data)
    IN IF r.kind = "raise"
       THEN Return([status |-> "error", error |-> r.value,
                    message |-> "Risk assessment failed"])
       ELSE r

(***************************************************************************)
(* main.py: validate_file_extension and the steps of analyze_document      *)
(*                                                                         *)
(* An exception is the record [type, status_code, detail]: status_code is  *)
(* 0 unless the type is "HTTPException"; detail is the tuple of the parts  *)
(* of the message.                                                         *)
(***************************************************************************)
ALLOWED_EXTENSIONS == {Ext("pdf"), Ext("txt"), Ext("csv"), Ext("xlsx"), Ext("xls")}

\* os.path.splitext(p)[1]: from the last dot of the last component, unless
\* only dots come before it there.
SplitExt(p) ==
    LET sep == RFind(p, "/")
        dot == RFind(p, ".")
    IN IF dot > sep /\ \E k \in (sep + 1)..(dot - 1) : p[k] # "."
       THEN Drop(p, dot - 1)
       ELSE <<>>

validate_file_extension(filename) == Lower(SplitExt(filename)) \in ALLOWED_EXTENSIONS

UPLOAD_DIR == <<"u", "p", "l", "o", "a", "d", "s">>

\* os.path.join(UPLOAD_DIR, f"doc_{file_id}{file_extension}"), a uuid being
\* written as its number.
FilePath(file_id, filename) ==
    UPLOAD_DIR \o <<"/", "d", "o", "c", "_">> \o Digits(file_id) \o SplitExt(filename)

timeout == 300

HTTPException(status_code, detail) ==
    [type |-> "HTTPException", status_code |-> status_code, detail |-> detail]

Exception(type, message) == [type |-> type, status_code |-> 0, detail |-> <<message>>]

\* str(e)
Str(e) ==
    IF e.type = "HTTPException" THEN <<ToString(e.status_code)>> \o e.detail
    ELSE e.detail

\* The inner try block of the save: file.read(), the test of the content,
\* open() and write(). `fault` is what the upload stream and the disk do:
\* "read", "open" or "write" fails, or "none" does.
SaveBody(file, fault) ==
    IF fault = "read" THEN Raise(Exception("OSError", "read failed"))
    ELSE IF file.content = <<>>
    THEN Raise(HTTPException(400, <<"Empty file uploaded">>))
    ELSE IF fault = "open" THEN Raise(Exception("OSError", "open failed"))
    ELSE IF fault = "write" THEN Raise(Exception("OSError", "write failed"))
    ELSE Return(file.content)

\* The save with its clause `except Exception as e`.
Save(file, fault) ==
    LET r == SaveBody(file, fault)
    IN IF r.kind = "raise"
       THEN Raise(HTTPException(500, <<"File save failed">> \o Str(r.value)))
       ELSE r

\* open(file_path, "wb") made the file: every step up to it went well.
Created(file, fault) ==
    fault \in {"none", "write"} /\ file.content # <<>>

\* run_crew has no await expression: once started it runs to its end without
\* giving the event loop a turn.
RunCrewYields == FALSE

\* run_crew: the report of the crew, or the exception it wraps.
RunCrew(kickoff) ==
    IF kickoff = "raise"
    THEN Raise(Exception("Exception", "Crew execution failed"))
    ELSE Return(<<"r", "e", "p", "o", "r", "t">>)

\* asyncio.wait_for(awaitable, timeout): the timer is a callback of the event
\* loop, which runs when the awaitable yields; an awaitable that has ended
\* when the loop gets its turn gives its own result, however long it took.
WaitFor(result, yields, elapsed) ==
    IF yields /\ elapsed > timeout
    THEN Raise(Exception("TimeoutError", ""))
    ELSE result

\* The try statement around wait_for.
Process(kickoff, elapsed) ==
    LET r == WaitFor(RunCrew(kickoff), RunCrewYields, elapsed)
    IN IF r.kind = "raise" /\ r.value.type = "TimeoutError"
       THEN Raise(HTTPException(504, <<"Analysis timed out">>))
       ELSE r

\* The except clauses of the outer try statement.
OuterExcept(r) ==
    IF r.kind = "raise" /\ r.value.type # "HTTPException"
    THEN Raise(HTTPException(500, <<"Error processing financial document">>
                                      \o Str(r.value)))
    ELSE r

\* The dict analyze_document returns.
Success(file, file_id, analysis) ==
    [ status |-> "success",
      analysis |-> analysis,
      file_processed |-> file.filename,
      file_id |-> file_id,
      message |-> "Document analyzed successfully" ]

\* The finally clause without the removal: the file stays.
CleanupKeep(files, file_path, remove_fails) == files

\* The finally clause: the files of UPLOAD_DIR after it.
Cleanup(files, file_path, remove_fails) ==
    IF file_path \in files /\ ~remove_fails THEN files \ {file_path} ELSE files

\* The HTTP status of a finished call.
StatusCode(outcome) ==
    IF outcome.kind = "return" THEN 200 ELSE outcome.value.status_code

(***************************************************************************)
(* main.py: analyze_multiple_documents                                     *)
(***************************************************************************)
\* The entry appended to results for a file.
BatchEntry(file, outcome) ==
    IF outcome.kind = "return"
    THEN [filename |-> file.filename, status |-> "success", result |-> outcome.value]
    ELSE [filename |-> file.filename, status |-> "failed", error |-> Str(outcome.value)]

\* The loop with a failure of a file ending it.
NextFileStopOnFailure(files, i, outcome) ==
    IF outcome.kind = "raise" THEN Len(files) + 1 ELSE i + 1

\* The for loop: the index of the file after file i.
NextFile(files, i, outcome) == i + 1

\* sum(1 for r in results if r["status"] == status)
CountStatus(results, status) ==
    Cardinality({i \in 1..Len(results) : results[i].status = status})

\* The dict analyze_multiple_documents returns.
BatchResponse(files, results) ==
    [ batch_status |-> "completed",
      total_files |-> Len(files),
      successful |-> CountStatus(results, "success"),
      failed |-> CountStatus(results, "failed"),
      results |-> results ]

(***************************************************************************)
(* State machine: one call at a time, from "idle" to "done" and back.      *)
(***************************************************************************)
CleanAlphabet == {"a", " ", "\n", "\t", "U+00E9", "U+00A0"}

\* The paths read_data is called with: a str, or a value that is no str.
StrPath(chars) == [isStr |-> TRUE, chars |-> chars]

NonePath == [isStr |-> FALSE, chars |-> <<>>]

SamplePaths ==
    { StrPath(<<"f">> \o Ext("pdf")),
      StrPath(<<"f", ".", "P", "D", "F">>),
      StrPath(<<"f">> \o Ext("txt")),
      StrPath(<<"f">> \o Ext("csv")),
      StrPath(<<"f">> \o Ext("xlsx")),
      StrPath(<<"f">> \o Ext("xls")),
      StrPath(<<"f", ".", "d", "o", "c">>),
      StrPath(<<"f", ".", "D", "o", "c">>),
      StrPath(<<"f">>),
      StrPath(Ext("pdf")),
      StrPath(<<"d">> \o Ext("txt") \o <<"/", "f">>) }

\* What a path leads to on disk.
NoFile == [type |-> "missing"]

Unreadable == [type |-> "unreadable"]

PageTexts == {<<>>, <<" ">>, <<"a", " ", " ", "b">>}

SamplePages ==
    {[raises |-> TRUE, text |-> <<>>]}
        \cup {[raises |-> FALSE, text |-> t] : t \in PageTexts}

PdfFiles ==
    {[type |-> "pdf", pages |-> ps, detected |-> <<"%", "P", "D", "F">>,
      utf8 |-> <<"%", "P", "D", "F">>] : ps \in SeqUpTo(SamplePages, MaxPages)}

TextFiles ==
    { [type |-> "text", detected |-> <<>>, utf8 |-> <<>>],
      [type |-> "text", detected |-> <<"a", " ", " ", "b", "\n", " ", "\n", "\n", "c", " ">>,
       utf8 |-> <<"a", " ", " ", "b", "\n", " ", "\n", "\n", "c", " ">>],
      [type |-> "text", detected |-> <<"a", "U+00E9", "b">>, utf8 |-> <<"a", "b">>],
      [type |-> "text", detected |-> ErrorPrefix \o <<" ", "x">>,
       utf8 |-> ErrorPrefix \o <<" ", "x">>] }

TableFiles ==
    {[type |-> "table", rows |-> s[1], cols |-> s[2],
      detected |-> <<"c", "\n", "v">>, utf8 |-> <<"c", "\n", "v">>] :
        s \in {<<0, 0>>, <<3, 2>>, <<51, 1>>}}

SampleFiles == {NoFile, Unreadable} \cup PdfFiles \cup TextFiles \cup TableFiles

\* The text analyze_investment is called with: a str, or a value that is none.
StrData(chars) == [isStr |-> TRUE, chars |-> chars]

NoneData == [isStr |-> FALSE, chars |-> <<>>]

\* The lines of a financial statement: a label, then ": $" and an amount or
\* only a comma.
SampleLabels ==
    { <<"R", "e", "v", "e", "n", "u", "e">>,
      <<"s", "a", "l", "e", "s">>,
      <<"N", "e", "t", " ", "I", "n", "c", "o", "m", "e">>,
      <<"n", "e", "t", "\n", " ", "p", "r", "o", "f", "i", "t">> }

SampleAmounts ==
    { <<"1", ",", "0", "0", "0", ",", "0", "0", "0">>,
      <<"1", "5", "0", ",", "0", "0", "0">>,
      <<"8", "0", ",", "0", "0", "0", ".", "5">>,
      <<"0">>,
      <<",">>,
      <<>> }

SampleLines ==
    {l \o <<":", " ", "$">> \o a \o <<"\n">> : l \in SampleLabels, a \in SampleAmounts}
        \cup {l \o <<" ", ",", "\n">> : l \in SampleLabels}

RECURSIVE Concat(_)
Concat(parts) == IF parts = <<>> THEN <<>> ELSE parts[1] \o Concat(Tail(parts))

SampleStatements == {Concat(ls) : ls \in SeqUpTo(SampleLines, MaxLines)}

\* The metrics the ratio calculator is called with: small amounts, whole and
\* in tenths, and the amounts of the worked example.
SampleValues ==
    {Rat(n, d) : n \in (-2)..MaxAmount, d \in {1, 10}} \cup {Rat(32, 1)}

Dict(revenue, net_income) ==
    (IF revenue = NoMatch THEN EmptyDict ELSE "revenue" :> revenue)
        @@ (IF net_income = NoMatch THEN EmptyDict ELSE "net_income" :> net_income)

ExampleMetrics == Dict(Rat(1000000, 1), Rat(150000, 1))

SampleMetrics ==
    {Dict(r, n) : r \in SampleValues \cup {NoMatch}, n \in SampleValues \cup {NoMatch}}
        \cup {ExampleMetrics}

\* The ratios the scorer is called with: margins around every threshold.
SampleMargins ==
    {m + d : m \in {0, 500, 1000, 1500, 10000}, d \in {-1, 0, 1}} \cup {-2500}

SampleRatios == {EmptyDict} \cup {"profit_margin" :> m : m \in SampleMargins}

\* The scores the recommender is called with.
SampleScores == (-5)..105

\* The words of the texts assess_risk is called with.
RiskWords ==
    { KwDebt, <<"D", "E", "B", "T">>, <<"d", "e">>, <<"b", "t">>,
      <<"V", "o", "l", "a", "t", "i", "l", "e">>, KwUncertainty,
      <<" ">>, <<"x">> }

SampleReports == {Concat(ws) : ws \in SeqUpTo(RiskWords, MaxWords)}

\* The uploads the endpoints are called with: a file name and the content.
Upload(filename, content) == [filename |-> filename, content |-> content]

SampleUploads ==
    {Upload(f, c) : f \in { <<"a">> \o Ext("pdf"),
                            <<"b", ".", "T", "X", "T">>,
                            <<"c", ".", "e", "x", "e">>,
                            <<"d">> },
                    c \in {<<>>, <<"x">>}}

\* The values uuid.uuid4() gives: never one that names a file.
Uuids == 1..MaxFiles

\* A file another request has in UPLOAD_DIR.
OtherDoc == FilePath(0, <<"o">> \o Ext("pdf"))

\* No call of analyze_document in progress. Of a call: where it is, the
\* upload, file_id and file_path, what the disk did at the save, whether
\* open() made the file, the seconds run_crew has run, what the finally
\* clause did, and the dict returned or the exception raised.
NoCall ==
    [ pc |-> "none", file |-> Upload(<<>>, <<>>), file_id |-> 0, file_path |-> <<>>,
      fault |-> "none", created |-> FALSE, elapsed |-> 0, cleanup |-> "none",
      outcome |-> Return(<<>>) ]

\* No call of analyze_multiple_documents in progress.
NoBatch ==
    [ pc |-> "none", files |-> <<>>, i |-> 0, results |-> <<>>,
      response |-> BatchResponse(<<>>, <<>>) ]

Init ==
    /\ PDF_SUPPORT \in BOOLEAN
    /\ EXCEL_SUPPORT \in BOOLEAN
    /\ CHARDET_SUPPORT \in BOOLEAN
    /\ pc = "idle"
    /\ op = "none"
    /\ arg = <<>>
    /\ ret = Return(<<>>)
    /\ uploads = {OtherDoc}
    /\ call = NoCall
    /\ batch = NoBatch

\* A call of _clean_text(text).
CallCleanText ==
    /\ pc = "idle"
    /\ \E text \in SeqUpTo(CleanAlphabet, MaxTextLen) :
          /\ arg' = text
          /\ ret' = Return(CleanText(text))
    /\ op' = "_clean_text"
    /\ pc' = "done"
    /\ UNCHANGED <<flags, server>>

\* A call of read_data(file_path), the path leading to `file` on disk.
CallReadData ==
    /\ pc = "idle"
    /\ \E path \in SamplePaths \cup {NonePath} :
          \E file \in IF path.isStr THEN SampleFiles ELSE {NoFile} :
              /\ arg' = [path |-> path, file |-> file]
              /\ ret' = ReadData(path, file)
    /\ op' = "read_data"
    /\ pc' = "done"
    /\ UNCHANGED <<flags, server>>

\* A call of _calculate_investment_ratios(metrics).
CallCalculateRatios ==
    /\ pc = "idle"
    /\ \E metrics \in SampleMetrics :
          /\ arg' = [metrics |-> metrics]
          /\ ret' = CalculateInvestmentRatios(metrics)
    /\ op' = "_calculate_investment_ratios"
    /\ pc' = "done"
    /\ UNCHANGED <<flags, server>>

\* A call of _calculate_investment_score(metrics, ratios), with the ratios of
\* the metrics or with any others.
CallCalculateScore ==
    /\ pc = "idle"
    /\ \E metrics \in {EmptyDict, ExampleMetrics} :
          \E ratios \in SampleRatios \cup {CalculateInvestmentRatios(metrics).value} :
              /\ arg' = [metrics |-> metrics, ratios |-> ratios]
              /\ ret' = Return(CalculateInvestmentScore(metrics, ratios))
    /\ op' = "_calculate_investment_score"
    /\ pc' = "done"
    /\ UNCHANGED <<flags, server>>

\* A call of _generate_recommendations(metrics, ratios, score).
CallGenerateRecommendations ==
    /\ pc = "idle"
    /\ \E score \in SampleScores :
          /\ arg' = [metrics |-> EmptyDict, ratios |-> EmptyDict, score |-> score]
          /\ ret' = Return(GenerateRecommendations(EmptyDict, EmptyDict, score))
    /\ op' = "_generate_recommendations"
    /\ pc' = "done"
    /\ UNCHANGED <<flags, server>>

\* A call of _extract_financial_metrics(text).
CallExtractFinancialMetrics ==
    /\ pc = "idle"
    /\ \E data \in {StrData(t) : t \in SampleStatements} \cup {NoneData} :
          /\ arg' = data
          /\ ret' = ExtractFinancialMetrics(data)
    /\ op' = "_extract_financial_metrics"
    /\ pc' = "done"
    /\ UNCHANGED <<flags, server>>

\* A call of analyze_investment(financial_data).
CallAnalyzeInvestment ==
    /\ pc = "idle"
    /\ \E data \in {StrData(t) : t \in SampleStatements} \cup {NoneData} :
          /\ arg' = data
          /\ ret' = AnalyzeInvestment(data)
    /\ op' = "analyze_investment"
    /\ pc' = "done"
    /\ UNCHANGED <<flags, server>>

\* A call of assess_risk(financial_data).
CallAssessRisk ==
    /\ pc = "idle"
    /\ \E data \in {StrData(t) : t \in SampleReports} \cup {NoneData} :
          /\ arg' = data
          /\ ret' = AssessRisk(data)
    /\ op' = "assess_risk"
    /\ pc' = "done"
    /\ UNCHANGED <<flags, server>>

\* The caller takes the result; the tools keep no state between calls.
Finish ==
    /\ pc = "done"
    /\ pc' = "idle"
    /\ op' = "none"
    /\ arg' = <<>>
    /\ ret' = Return(<<>>)
    /\ UNCHANGED <<flags, server>>

\* POST /analyze: a call of analyze_document(file, query).
PostAnalyze ==
    /\ call.pc = "none"
    /\ batch.pc = "none"
    /\ \E file \in SampleUploads :
          call' = [NoCall EXCEPT !.pc = "validate", !.file = file]
    /\ UNCHANGED <<flags, tool, uploads, batch>>

\* The test of the extension, and the file_id and file_path of the upload.
Validate ==
    /\ call.pc = "validate"
    /\ IF ~validate_file_extension(call.file.filename)
       THEN call' = [call EXCEPT
                        !.pc = "done",
                        !.outcome = Raise(HTTPException(400, <<"File type not allowed">>))]
       ELSE \E file_id \in Uuids :
               /\ \A f \in uploads : ~StartsWith(f, FilePath(file_id, <<>>))
               /\ call' = [call EXCEPT
                              !.pc = "save",
                              !.file_id = file_id,
                              !.file_path = FilePath(file_id, call.file.filename)]
    /\ UNCHANGED <<flags, tool, uploads, batch>>

\* os.makedirs and the save of the upload, whatever the upload stream and the
\* disk do.
SaveUpload ==
    /\ call.pc = "save"
    /\ \E fault \in {"none", "makedirs", "read", "open", "write"} :
          LET r == IF fault = "makedirs"
                   THEN Raise(Exception("OSError", "makedirs failed"))
                   ELSE Save(call.file, fault)
              created == fault # "makedirs" /\ Created(call.file, fault)
          IN /\ uploads' = IF created THEN uploads \cup {call.file_path} ELSE uploads
             /\ call' = [call EXCEPT
                            !.pc = IF r.kind = "raise" THEN "finally" ELSE "process",
                            !.fault = fault,
                            !.created = created,
                            !.outcome = OuterExcept(r)]
    /\ UNCHANGED <<flags, tool, batch>>

\* wait_for starts run_crew, which starts the crew.
StartCrew ==
    /\ call.pc = "process"
    /\ call' = [call EXCEPT !.pc = "running", !.elapsed = 0]
    /\ UNCHANGED <<flags, tool, uploads, batch>>

\* Time passes while the crew runs.
Tick ==
    /\ call.pc = "running"
    /\ call.elapsed < MaxTicks * TickSeconds
    /\ call' = [call EXCEPT !.elapsed = @ + TickSeconds]
    /\ UNCHANGED <<flags, tool, uploads, batch>>

\* kickoff returns or raises: run_crew ends, and wait_for with it.
CrewEnds ==
    /\ call.pc = "running"
    /\ \E kickoff \in {"return", "raise"} :
          LET r == OuterExcept(Process(kickoff, call.elapsed))
          IN call' = [call EXCEPT
                         !.pc = "finally",
                         !.outcome =
                             IF r.kind = "return"
                             THEN Return(Success(call.file, call.file_id, r.value))
                             ELSE r]
    /\ UNCHANGED <<flags, tool, uploads, batch>>

\* The finally clause, os.remove failing or not.
Finally ==
    /\ call.pc = "finally"
    /\ \E remove_fails \in BOOLEAN :
          /\ uploads' = Cleanup(uploads, call.file_path, remove_fails)
          /\ call' = [call EXCEPT
                         !.pc = "done",
                         !.cleanup = IF call.file_path \notin uploads THEN "none"
                                     ELSE IF remove_fails THEN "failed"
                                     ELSE "removed"]
    /\ UNCHANGED <<flags, tool, batch>>

\* The response of POST /analyze goes to the client.
Respond ==
    /\ call.pc = "done"
    /\ batch.pc = "none"
    /\ call' = NoCall
    /\ UNCHANGED <<flags, tool, uploads, batch>>

\* POST /analyze/batch: a call of analyze_multiple_documents(files, query).
PostBatch ==
    /\ call.pc = "none"
    /\ batch.pc = "none"
    /\ \E files \in SeqUpTo(SampleUploads, MaxFiles) \ {<<>>} :
          batch' = [NoBatch EXCEPT !.pc = "loop", !.files = files, !.i = 1]
    /\ UNCHANGED <<flags, tool, uploads, call>>

\* The loop calls analyze_document on the next file.
BatchCall ==
    /\ batch.pc = "loop"
    /\ call.pc = "none"
    /\ batch.i <= Len(batch.files)
    /\ call' = [NoCall EXCEPT !.pc = "validate", !.file = batch.files[batch.i]]
    /\ UNCHANGED <<flags, tool, uploads, batch>>

\* The call returned or raised: its entry is appended to results.
BatchCollect ==
    /\ batch.pc = "loop"
    /\ call.pc = "done"
    /\ batch' = [batch EXCEPT
                    !.results = Append(@, BatchEntry(call.file, call.outcome)),
                    !.i = NextFile(batch.files, batch.i, call.outcome)]
    /\ call' = NoCall
    /\ UNCHANGED <<flags, tool, uploads>>

\* The loop is over: the summary is returned.
BatchReturn ==
    /\ batch.pc = "loop"
    /\ call.pc = "none"
    /\ batch.i > Len(batch.files)
    /\ batch' = [batch EXCEPT
                    !.pc = "done",
                    !.response = BatchResponse(batch.files, batch.results)]
    /\ UNCHANGED <<flags, tool, uploads, call>>

\* The response of POST /analyze/batch goes to the client.
BatchRespond ==
    /\ batch.pc = "done"
    /\ batch' = NoBatch
    /\ UNCHANGED <<flags, tool, uploads, call>>

\* The text tools read none of the flags: their specifications start with
\* every optional library present.
InitTools == Init /\ PDF_SUPPORT /\ EXCEL_SUPPORT /\ CHARDET_SUPPORT

NextClean == CallCleanText \/ Finish

SpecClean == InitTools /\ [][NextClean]_vars

NextIngest == CallReadData \/ Finish

SpecIngest == Init /\ [][NextIngest]_vars

NextInvest ==
    \/ CallCalculateRatios
    \/ CallCalculateScore
    \/ CallGenerateRecommendations
    \/ CallAnalyzeInvestment
    \/ Finish

SpecInvest == InitTools /\ [][NextInvest]_vars

NextRisk == CallAssessRisk \/ Finish

SpecRisk == InitTools /\ [][NextRisk]_vars

\* The two analysis stages together.
NextStages == CallAnalyzeInvestment \/ CallAssessRisk \/ Finish

SpecStages == InitTools /\ [][NextStages]_vars

\* The extraction alone and as the first step of the analysis.
NextExtract == CallExtractFinancialMetrics \/ CallAnalyzeInvestment \/ Finish

SpecExtract == InitTools /\ [][NextExtract]_vars

\* analyze_document, called by POST /analyze.
NextAnalyze ==
    \/ PostAnalyze
    \/ Validate
    \/ SaveUpload
    \/ StartCrew
    \/ Tick
    \/ CrewEnds
    \/ Finally
    \/ Respond

SpecAnalyze == InitTools /\ [][NextAnalyze]_vars

\* analyze_document, called by analyze_multiple_documents.
NextBatch ==
    \/ PostBatch
    \/ BatchCall
    \/ Validate
    \/ SaveUpload
    \/ StartCrew
    \/ Tick
    \/ CrewEnds
    \/ Finally
    \/ BatchCollect
    \/ BatchReturn
    \/ BatchRespond

SpecBatch == InitTools /\ [][NextBatch]_vars

\* Every call of src/tools.py, under every setting of the flags, and every
\* request.
Next ==
    \/ PostAnalyze
    \/ Validate
    \/ SaveUpload
    \/ StartCrew
    \/ Tick
    \/ CrewEnds
    \/ Finally
    \/ Respond
    \/ PostBatch
    \/ BatchCall
    \/ BatchCollect
    \/ BatchReturn
    \/ BatchRespond
    \/ CallReadData
    \/ CallExtractFinancialMetrics
    \/ CallCleanText
    \/ CallCalculateRatios
    \/ CallCalculateScore
    \/ CallGenerateRecommendations
    \/ CallAnalyzeInvestment
    \/ CallAssessRisk
    \/ Finish

Spec == Init /\ [][Next]_vars

(***************************************************************************)
(* Properties of read_data                                                 *)
(***************************************************************************)
ReadDone == pc = "done" /\ op = "read_data"

SupportedExts == {Ext("pdf"), Ext("txt"), Ext("csv"), Ext("xlsx"), Ext("xls")}

\* s.endswith(p)
EndsWith(s, p) == MatchAt(s, p, Len(s) - Len(p) + 1)

\* C1: read_data never raises: whatever the path leads to, the call returns,
\* and what it returns is a string.
ReadDataNeverRaises ==
    ReadDone => ret.kind = "return" /\ ret.value \in Seq(STRING)

\* C1 witness: the text reader failed on an unreadable file and the failure
\* came back as text.
ReadDataReaderFailureReturned ==
    /\ ReadDone
    /\ arg.file = Unreadable
    /\ ret.reader = "_read_text"
    /\ ret = Return(MsgTextFailed \o ErrMsg) @@ [reader |-> "_read_text"]

\* C2: a path that ends in a supported extension and does not exist gives an
\* ERROR: payload containing "not found", and no reader is called.
MissingFileNotFound ==
    (/\ ReadDone
     /\ arg.path.isStr
     /\ \E e \in SupportedExts : EndsWith(Lower(arg.path.chars), e)
     /\ arg.file = NoFile)
        => /\ ret.kind = "return"
           /\ StartsWith(ret.value, ErrorPrefix)
           /\ Contains(ret.value, NotFoundText)
           /\ ret.reader = "none"

\* C2 witness: read_data was called on the nonexistent path "f.xlsx".
MissingXlsxRead ==
    /\ ReadDone
    /\ arg.path = StrPath(<<"f">> \o Ext("xlsx"))
    /\ arg.file = NoFile
    /\ ret.value = MsgNotFound \o <<"f">> \o Ext("xlsx")

\* The extension of the path, compared case-insensitively, is not supported.
UnsupportedExtension(path) ==
    path.isStr /\ Lower(Suffix(path.chars)) \notin SupportedExts

\* C3 as stated: every path with an unsupported extension, existing or not,
\* gives a payload containing "Unsupported file type".
UnsupportedAlwaysReported ==
    (ReadDone /\ UnsupportedExtension(arg.path))
        => Contains(ret.value, UnsupportedText)

\* C3 amended: every existing path with an unsupported extension gives an
\* ERROR: payload containing "Unsupported file type" and no reader is called;
\* a path that does not exist gives "not found" whatever its extension.
UnsupportedExistingReported ==
    /\ (ReadDone /\ UnsupportedExtension(arg.path) /\ arg.file # NoFile)
          => /\ ret.kind = "return"
             /\ StartsWith(ret.value, ErrorPrefix)
             /\ Contains(ret.value, UnsupportedText)
             /\ ret.reader = "none"
    /\ (ReadDone /\ UnsupportedExtension(arg.path) /\ arg.file = NoFile)
          => /\ Contains(ret.value, NotFoundText)
             /\ ~Contains(ret.value, UnsupportedText)

\* C3 witness: read_data was called on the existing file "f.Doc".
ExistingDocRead ==
    /\ ReadDone
    /\ arg.path = StrPath(<<"f", ".", "D", "o", "c">>)
    /\ arg.file \in TextFiles
    /\ ret.value = MsgUnsupported \o <<".", "d", "o", "c">>

\* The call did not produce the document's normalized or preview text.
IngestFailed ==
    \/ ~arg.path.isStr
    \/ arg.file = NoFile
    \/ ret.reader = "none"
    \/ ret.reader = "_read_pdf" /\ (~PDF_SUPPORT \/ arg.file.type # "pdf")
    \/ ret.reader = "_read_text" /\ arg.file.type = "unreadable"
    \/ ret.reader = "_read_spreadsheet"
          /\ (~EXCEL_SUPPORT \/ arg.file.type # "table")

\* C4: the result of read_data starts with "ERROR:" exactly when the
\* ingestion failed.
FailureIffErrorPrefix ==
    ReadDone => (IngestFailed <=> StartsWith(ret.value, ErrorPrefix))

(***************************************************************************)
(* Properties of _clean_text                                               *)
(***************************************************************************)
\* C5: _clean_text is idempotent: cleaning a cleaned text changes nothing.
CleanTextIdempotent ==
    (pc = "done" /\ op = "_clean_text") => CleanText(ret.value) = ret.value

(***************************************************************************)
(* Properties of the ratio calculator, the scorer and the recommender      *)
(***************************************************************************)
RatiosDone == pc = "done" /\ op = "_calculate_investment_ratios"

ScoreDone == pc = "done" /\ op = "_calculate_investment_score"

RecommendDone == pc = "done" /\ op = "_generate_recommendations"

InvestDone == pc = "done" /\ op = "analyze_investment"

RiskDone == pc = "done" /\ op = "assess_risk"

\* pm hundredths is net_income / revenue * 100 rounded to two places: it is
\* within half a hundredth of the quotient, and even when exactly half off.
IsRoundedMargin(pm, net_income, revenue) ==
    LET a == net_income.num * revenue.den
        b == net_income.den * revenue.num
        off == 2 * Abs(pm * b - 10000 * a)
    IN /\ off <= Abs(b)
       /\ off = Abs(b) => pm % 2 = 0

\* C6: the ratios hold profit_margin, and nothing else, exactly when revenue
\* and net_income are present and revenue is not zero; it is then the rounded
\* quotient; and the call returns (no division by zero).
ProfitMarginGated ==
    RatiosDone =>
        LET m == arg.metrics
            present == /\ "revenue" \in DOMAIN m
                       /\ "net_income" \in DOMAIN m
                       /\ m["revenue"].num # 0
        IN /\ ret.kind = "return"
           /\ DOMAIN ret.value \subseteq {"profit_margin"}
           /\ "profit_margin" \in DOMAIN ret.value <=> present
           /\ present => IsRoundedMargin(ret.value["profit_margin"],
                                         m["net_income"], m["revenue"])

\* C6 witness: the ratios of metrics with a net income and a revenue of zero
\* were calculated, and are empty.
ZeroRevenueOmitted ==
    /\ RatiosDone
    /\ arg.metrics = Dict(Rat(0, 1), Rat(5, 1))
    /\ ret = Return(EmptyDict)

\* C7: the score is in 0..100; it is 50 without a profit margin and 50 plus
\* the one increment of the margin's band otherwise, a margin on a threshold
\* belonging to the band below; the example's margin is 15.0 and scores 60.
ScoreByFirstThreshold ==
    ScoreDone =>
        LET has == "profit_margin" \in DOMAIN arg.ratios
            pm == arg.ratios["profit_margin"]
        IN /\ ret.value \in 0..100
           /\ ~has => ret.value = 50
           /\ has /\ pm > 1500 => ret.value = 65
           /\ has /\ 1000 < pm /\ pm <= 1500 => ret.value = 60
           /\ has /\ 500 < pm /\ pm <= 1000 => ret.value = 55
           /\ has /\ pm <= 500 => ret.value = 50
           /\ (/\ arg.metrics = ExampleMetrics
               /\ arg.ratios = CalculateInvestmentRatios(ExampleMetrics).value)
                 => arg.ratios = ("profit_margin" :> 1500) /\ ret.value = 60

\* C7 witness: the example (revenue 1,000,000, net income 150,000) was
\* scored with its own ratios.
ExampleScored ==
    /\ ScoreDone
    /\ arg.metrics = ExampleMetrics
    /\ arg.ratios = CalculateInvestmentRatios(ExampleMetrics).value
    /\ ret.value = 60

\* The tier of a recommendation: the text before its colon.
Tier(recommendation) ==
    CASE recommendation = "STRONG BUY: Company shows excellent financial metrics"
            -> "STRONG BUY"
      [] recommendation = "BUY: Company shows good financial health" -> "BUY"
      [] recommendation = "HOLD: Company shows average financial metrics" -> "HOLD"
      [] recommendation = "SELL/AVOID: Company shows concerning financial metrics"
            -> "SELL/AVOID"

\* C8: the recommendations are one string, whose tier the score alone fixes:
\* STRONG BUY from 80, BUY from 60, HOLD from 40, SELL/AVOID below.
OneRecommendationByScore ==
    RecommendDone =>
        /\ Len(ret.value) = 1
        /\ arg.score >= 80 <=> Tier(ret.value[1]) = "STRONG BUY"
        /\ (60 <= arg.score /\ arg.score < 80) <=> Tier(ret.value[1]) = "BUY"
        /\ (40 <= arg.score /\ arg.score < 60) <=> Tier(ret.value[1]) = "HOLD"
        /\ arg.score < 40 <=> Tier(ret.value[1]) = "SELL/AVOID"

\* C8 witness: a score of exactly 60 was recommended as BUY.
SixtyIsBuy ==
    /\ RecommendDone
    /\ arg.score = 60
    /\ ret.value = <<"BUY: Company shows good financial health">>

(***************************************************************************)
(* Properties of assess_risk                                               *)
(***************************************************************************)
HasDebt(chars) == Contains(Lower(chars), KwDebt)

HasMarket(chars) ==
    Contains(Lower(chars), KwVolatile) \/ Contains(Lower(chars), KwUncertainty)

\* C9: for a text, the risk score is 50, plus 10 if it holds "debt", plus 5
\* if it holds "volatile" or "uncertainty"; there is one financial risk
\* exactly when the first holds and one market risk exactly when the second
\* does; appending a word never lowers the score; the empty text scores 50
\* with no flags at level medium, and a text with "debt" and "volatile"
\* scores 65 at level medium.
RiskScoreAdditive ==
    (RiskDone /\ arg.isStr) =>
        LET r == ret.value
            d == IF HasDebt(arg.chars) THEN 1 ELSE 0
            m == IF HasMarket(arg.chars) THEN 1 ELSE 0
        IN /\ ret.kind = "return"
           /\ r.risk_score = 50 + 10 * d + 5 * m
           /\ Len(r.financial_risks) = d
           /\ Len(r.market_risks) = m
           /\ \A w \in RiskWords :
                 AssessRisk(StrData(arg.chars \o w)).value.risk_score >= r.risk_score
           /\ arg.chars = <<>> =>
                 /\ r.risk_score = 50
                 /\ r.financial_risks = <<>>
                 /\ r.market_risks = <<>>
                 /\ r.overall_risk_level = "medium"
           /\ (HasDebt(arg.chars) /\ Contains(Lower(arg.chars), KwVolatile)) =>
                 r.risk_score = 65 /\ r.overall_risk_level = "medium"

\* C9 witness: the text "debt Volatile" was assessed at 65, level medium, one
\* flag of each category.
DebtAndVolatileAssessed ==
    /\ RiskDone
    /\ arg = StrData(KwDebt \o <<" ">> \o <<"V", "o", "l", "a", "t", "i", "l", "e">>)
    /\ ret.value.risk_score = 65
    /\ ret.value.overall_risk_level = "medium"
    /\ Len(ret.value.financial_risks) = 1
    /\ Len(ret.value.market_risks) = 1

(***************************************************************************)
(* Properties of both stages                                               *)
(***************************************************************************)
InvestmentKeys ==
    {"status", "extracted_metrics", "calculated_ratios", "investment_score",
     "recommendations"}

RiskKeys ==
    {"financial_risks", "market_risks", "overall_risk_level", "risk_score",
     "risk_factors"}

IsErrorRecord(r) ==
    /\ {"status", "error"} \subseteq DOMAIN r
    /\ r.status = "error"
    /\ r.error \in Seq(STRING)

\* C10: neither stage raises: a stage whose computation raised returns an
\* error record with the message, any other returns its full record.
StagesNeverRaise ==
    /\ InvestDone =>
          /\ ret.kind = "return"
          /\ IF AnalyzeInvestmentBody(arg).kind = "raise"
             THEN IsErrorRecord(ret.value)
             ELSE DOMAIN ret.value = InvestmentKeys /\ ret.value.status = "success"
    /\ RiskDone =>
          /\ ret.kind = "return"
          /\ IF AssessRiskBody(arg).kind = "raise"
             THEN IsErrorRecord(ret.value)
             ELSE DOMAIN ret.value = RiskKeys

\* C10 witness: float() failed on the group "," of "Revenue ," and
\* analyze_investment returned the error record.
ExtractionFailureReturned ==
    /\ InvestDone
    /\ arg = StrData(<<"R", "e", "v", "e", "n", "u", "e", " ", ",", "\n">>)
    /\ ret = Return([status |-> "error", error |-> ValueErrorMsg,
                     message |-> "Investment analysis failed"])

(***************************************************************************)
(* Properties of _extract_financial_metrics                                *)
(***************************************************************************)
ExtractDone == pc = "done" /\ op = "_extract_financial_metrics"

\* The patterns of `patterns` that match somewhere in the text, by number.
Matching(text, patterns) ==
    {n \in 1..Len(patterns) : Search(text, patterns[n], 1).matched}

\* What the metric `key` must be when extraction returns: the number in the
\* group of the earliest listed pattern that matches, absent without one.
DecidedByFirst(metrics, key, text, patterns) ==
    LET hits == Matching(text, patterns)
        first == CHOOSE n \in hits : \A k \in hits : n <= k
    IN IF hits = {} THEN key \notin DOMAIN metrics
       ELSE /\ key \in DOMAIN metrics
            /\ Return(metrics[key]) =
                   ParseFloat(Remove(Search(text, patterns[first], 1).group, ","))

\* C11: the patterns of a metric are tried in their listed order and the
\* first one that matches anywhere in the text decides the value, wherever
\* the later patterns match; a metric none of whose patterns matches is an
\* absent key.
FirstMatchingPatternWins ==
    (ExtractDone /\ arg.isStr /\ ret.kind = "return") =>
        /\ DOMAIN ret.value \subseteq {"revenue", "net_income"}
        /\ DecidedByFirst(ret.value, "revenue", arg.chars, revenue_patterns)
        /\ DecidedByFirst(ret.value, "net_income", arg.chars, profit_patterns)

\* C11 witness: in "sales: $150,000 / Revenue: $1,000,000" the sales figure
\* comes first and revenue is the "revenue" figure.
RevenueOverEarlierSales ==
    /\ ExtractDone
    /\ arg = StrData(<<"s", "a", "l", "e", "s", ":", " ", "$",
                       "1", "5", "0", ",", "0", "0", "0", "\n",
                       "R", "e", "v", "e", "n", "u", "e", ":", " ", "$",
                       "1", ",", "0", "0", "0", ",", "0", "0", "0", "\n">>)
    /\ ret = Return("revenue" :> Rat(1000000, 1))

\* C17: whenever a pattern matches, its group without the commas is a number:
\* on a text the extraction returns and the analysis succeeds.
EveryMatchIsNumeric ==
    /\ (ExtractDone /\ arg.isStr) => ret.kind = "return"
    /\ (InvestDone /\ arg.isStr) => ret.value.status = "success"

\* C18: a successful analysis scores 50, 55, 60 or 65 and recommends HOLD or
\* BUY, whatever the text.
ScoreBetweenFiftyAndSixtyFive ==
    (InvestDone /\ ret.value.status = "success") =>
        /\ ret.value.investment_score \in {50, 55, 60, 65}
        /\ Len(ret.value.recommendations) = 1
        /\ Tier(ret.value.recommendations[1]) \in {"HOLD", "BUY"}

\* C18 witness: a text with a profit margin above 15 per cent was analysed:
\* it scores 65, the highest score, and is a BUY.
HighestScoreIsBuy ==
    /\ InvestDone
    /\ ret.value.status = "success"
    /\ "profit_margin" \in DOMAIN ret.value.calculated_ratios
    /\ ret.value.calculated_ratios["profit_margin"] > 1500
    /\ ret.value.investment_score = 65
    /\ Tier(ret.value.recommendations[1]) = "BUY"

(***************************************************************************)
(* Properties of assess_risk, continued                                    *)
(***************************************************************************)
\* C19: for a text, the risk score is 50, 55, 60 or 65, there are as many
\* risk factors as financial and market risks together, and the level is
\* "medium": "high" and "low" are never produced.
RiskLevelAlwaysMedium ==
    (RiskDone /\ arg.isStr) =>
        /\ ret.kind = "return"
        /\ ret.value.risk_score \in {50, 55, 60, 65}
        /\ Len(ret.value.risk_factors) =
              Len(ret.value.financial_risks) + Len(ret.value.market_risks)
        /\ ret.value.overall_risk_level = "medium"

\* C19 witness: a text with all three keywords was assessed: the highest
\* score, 65, two factors, level medium.
AllKeywordsMedium ==
    /\ RiskDone
    /\ arg.isStr
    /\ HasDebt(arg.chars)
    /\ Contains(Lower(arg.chars), KwVolatile)
    /\ Contains(Lower(arg.chars), KwUncertainty)
    /\ ret.value.risk_score = 65
    /\ Len(ret.value.risk_factors) = 2
    /\ ret.value.overall_risk_level = "medium"

(***************************************************************************)
(* Properties of _read_pdf                                                 *)
(***************************************************************************)
\* read_data handed a PDF document to _read_pdf, which opened it.
PdfRead ==
    /\ ReadDone
    /\ ret.reader = "_read_pdf"
    /\ PDF_SUPPORT
    /\ arg.file.type = "pdf"

\* The entry of page n in the output: the error marker of a page that
\* throws, the delimiter and the normalized text of any other.
PageEntry(pages, n) ==
    IF pages[n].raises
    THEN PageOpen \o Digits(n) \o PageErrorOpen \o ErrMsg \o PageErrorClose
    ELSE PageOpen \o Digits(n) \o PageClose \o <<"\n">> \o CleanText(pages[n].text)

\* Least position of p in s, or 0: s.find(p) + 1.
Find(s, p) ==
    IF Contains(s, p)
    THEN CHOOSE i \in 1..(Len(s) + 1) :
             MatchAt(s, p, i) /\ \A j \in 1..(i - 1) : ~MatchAt(s, p, j)
    ELSE 0

\* Number of places where p occurs in s.
Count(s, p) == Cardinality({i \in 1..Len(s) : MatchAt(s, p, i)})

\* The pages that get an entry: those that throw or have text.
EntryPages(pages) ==
    {n \in 1..Len(pages) : pages[n].raises \/ pages[n].text # <<>>}

\* C12: a page whose extraction throws has its error marker in the output,
\* every page with text after it still has its entry, and the entries stand
\* in page order.
PageFailureIsLocal ==
    PdfRead =>
        LET pages == arg.file.pages
        IN /\ \A n \in EntryPages(pages) : Contains(ret.value, PageEntry(pages, n))
           /\ \A m, n \in EntryPages(pages) :
                 m < n => Find(ret.value, PageEntry(pages, m))
                             < Find(ret.value, PageEntry(pages, n))

\* C12 witness: a PDF of three pages whose second page throws was read: the
\* text of page 1, the marker of page 2, the text of page 3.
SecondPageThrows ==
    /\ PdfRead
    /\ Len(arg.file.pages) = 3
    /\ arg.file.pages[2].raises
    /\ ret.value = PageOpen \o <<"1">> \o PageClose \o <<"\n", "a", " ", "b">>
                      \o <<"\n", "\n">>
                      \o PageOpen \o <<"2">> \o PageErrorOpen \o ErrMsg
                      \o PageErrorClose \o <<"\n", "\n">>
                      \o PageOpen \o <<"3">> \o PageClose \o <<"\n", "a", " ", "b">>

\* C20 as stated: the output has one entry per page, empty pages included:
\* as many entries as pages, and every page number from 1 to n.
OneEntryPerPage ==
    PdfRead =>
        LET pages == arg.file.pages
        IN /\ Count(ret.value, PageOpen) = Len(pages)
           /\ \A n \in 1..Len(pages) :
                 Contains(ret.value, PageOpen \o Digits(n) \o <<" ">>)

\* C20 amended: the output has one entry for each page that throws or whose
\* extracted text is not empty, under its own page number, and none for a
\* page whose extracted text is empty.
OneEntryPerPageWithText ==
    PdfRead =>
        LET pages == arg.file.pages
        IN /\ Count(ret.value, PageOpen) = Cardinality(EntryPages(pages))
           /\ \A n \in 1..Len(pages) :
                 Contains(ret.value, PageOpen \o Digits(n) \o <<" ">>)
                     <=> n \in EntryPages(pages)
           /\ \A n \in EntryPages(pages) : Contains(ret.value, PageEntry(pages, n))

\* C20 witness: a PDF whose first page has no text and whose second has was
\* read: the output is the entry of page 2 alone.
EmptyPageSkipped ==
    /\ PdfRead
    /\ Len(arg.file.pages) = 2
    /\ arg.file.pages[1] = [raises |-> FALSE, text |-> <<>>]
    /\ ret.value = PageOpen \o <<"2">> \o PageClose \o <<"\n", "a", " ", "b">>

(***************************************************************************)
(* Properties of analyze_document and analyze_multiple_documents           *)
(***************************************************************************)
\* The call of analyze_document is over: it returned or raised.
CallDone == call.pc = "done"

\* C13: when run_crew has not ended as the 300 seconds expire,
\* analyze_document answers with status 504.
TimeoutEnforced ==
    (CallDone /\ call.elapsed > timeout) => StatusCode(call.outcome) = 504

\* C14: the summary of a batch has one entry per file, in the order of the
\* files, each a success or a failure by the outcome of its own file
\* whatever happened to the files before it, and the two counts add up to
\* the number of files.
BatchFilesIndependent ==
    batch.pc = "done" =>
        LET r == batch.response
            files == batch.files
        IN /\ r.total_files = Len(files)
           /\ Len(r.results) = Len(files)
           /\ r.successful + r.failed = r.total_files
           /\ r.successful = CountStatus(r.results, "success")
           /\ \A i \in 1..Len(files) :
                 LET entry == r.results[i]
                     rejected == \/ ~validate_file_extension(files[i].filename)
                                 \/ files[i].content = <<>>
                 IN /\ entry.filename = files[i].filename
                    /\ entry.status \in {"success", "failed"}
                    /\ rejected => entry.status = "failed"
                    /\ entry.status = "failed" <=> "error" \in DOMAIN entry
                    /\ entry.status = "success" <=>
                          /\ "result" \in DOMAIN entry
                          /\ entry.result.status = "success"
                          /\ entry.result.file_processed = files[i].filename

\* C14 witness: a batch of two files is over: the first was rejected for its
\* extension, the second analysed.
SecondFileAnalysedAfterFailure ==
    /\ batch.pc = "done"
    /\ Len(batch.files) = 2
    /\ ~validate_file_extension(batch.files[1].filename)
    /\ batch.response.results[1].status = "failed"
    /\ batch.response.results[2].status = "success"
    /\ batch.response.successful = 1
    /\ batch.response.failed = 1

\* C15: once the call is over, the file it wrote to UPLOAD_DIR is gone,
\* unless os.remove failed; and no step removes any file but the one of the
\* call in progress.
UploadIsTransient ==
    /\ [](CallDone /\ call.created /\ call.cleanup # "failed"
              => call.file_path \notin uploads)
    /\ [][\A f \in uploads : f \notin uploads' => f = call.file_path]_vars

\* C15 witness: the crew failed on a saved upload; the call is over with
\* status 500, its file removed and the other request's file in place.
RemovedAfterPipelineFailure ==
    /\ CallDone
    /\ call.created
    /\ call.fault = "none"
    /\ StatusCode(call.outcome) = 500
    /\ call.cleanup = "removed"
    /\ call.file_path \notin uploads
    /\ OtherDoc \in uploads

\* C16: an upload without content, read without failure, is answered with
\* status 400 "Empty file uploaded", no file written and no crew run; and
\* status 500 "File save failed" is answered only when the read or the write
\* failed.
EmptyUploadRejected ==
    /\ (/\ CallDone
         /\ validate_file_extension(call.file.filename)
         /\ call.file.content = <<>>
         /\ call.fault \notin {"makedirs", "read"})
            => /\ call.outcome = Raise(HTTPException(400, <<"Empty file uploaded">>))
               /\ ~call.created
               /\ call.elapsed = 0
    /\ (/\ CallDone
         /\ call.outcome.kind = "raise"
         /\ call.outcome.value.detail[1] = "File save failed")
            => \/ call.fault = "read"
               \/ call.fault \in {"open", "write"} /\ call.file.content # <<>>

====
